---- MODULE Spec2Model ----
(***************************************************************************)
(* Model of the three coordinated views of Homework3/mrudrapati:           *)
(*   Layout (App.tsx)        - selectedRegion / selectedCondition state    *)
(*   VennDiagramComponent    - calculateFrequencies over the region codes  *)
(*   HeatMap                 - CGPA range x year frequency grid            *)
(*   Sankey                  - CGPA bin -> condition -> treatment graph    *)
(*                                                                         *)
(* A CSV cell is a string.  A row is a function from column headers to     *)
(* cells; d3.autoType turns the cells of a loaded row into JavaScript      *)
(* values.  Numbers obtained by parseFloat are kept in thousandths.        *)
(***************************************************************************)
EXTENDS Integers, Sequences, FiniteSets, TLC

VARIABLES
    file,               \* the rows of Cleaned_Student_Mental_Health.csv
    loadPending,        \* per view: the d3.csv promise is not settled yet
    cleanData,          \* per view: useState cleanData
    selectedRegion,     \* Layout useState selectedRegion
    selectedCondition,  \* Layout useState selectedCondition
    drawn,              \* per view: the redraw effect has drawn a chart
    frequencies,        \* Venn: the counts shown in the region labels
    frequencyData,      \* HeatMap: the grid cells shown
    sankeyData,         \* Sankey: nodes and links handed to the layout
    columns,            \* Sankey: within-rank node order after the layout
    lastEvent,          \* history: the last user event Layout handled
    error,              \* an effect threw: React has unmounted the page
    tooltips,           \* per view: tooltip divs in the view's container
    viewport,           \* the width of the browser window
    size,               \* per view: useState size
    resizeTimer,        \* Sankey: the size held by the pending debounce timer
    burst               \* history: resize events and size updates of the
                        \* current run of resizes less than 200 ms apart

vars == <<file, loadPending, cleanData, selectedRegion, selectedCondition,
          drawn, frequencies, frequencyData, sankeyData, columns, lastEvent,
          error, tooltips, viewport, size, resizeTimer, burst>>

\* the state of the resize handling, which the selection handlers leave alone
resizeVars == <<viewport, size, resizeTimer, burst>>

(***************************************************************************)
(* Bounds of the model.                                                    *)
(***************************************************************************)
MaxRecords == 2

\* tooltip divs counted in one container: MaxTooltips stands for that many or more
MaxTooltips == 2

\* resize events followed within one run of resizes
MaxBurst == 2

\* CGPA values of the grid run from -2 to MaxGrid steps of 0.005
MaxGrid == 802

(***************************************************************************)
(* JavaScript values and string helpers.                                   *)
(***************************************************************************)
\* null (selectedRegion) and undefined (a missing column) as reserved cells
Null == "<null>"
Undefined == "<undefined>"

\* the other values d3.autoType puts in a cell: booleans and numbers (a number
\* keeps the text it was read from)
JsTrue == "<true>"
JsFalse == "<false>"
NumberCell(text) == "<number " \o text \o ">"
IsNumberCell(v) == Len(v) > 9 /\ SubSeq(v, 1, 8) = "<number "
NumberText(v) == SubSeq(v, 9, Len(v) - 1)

\* the exception a call of a missing method raises
TypeError == "<TypeError>"

CharAt(s, i) == SubSeq(s, i, i)

StartsWith(s, p) == Len(s) >= Len(p) /\ SubSeq(s, 1, Len(p)) = p

UpperChars == "ABCDEFGHIJKLMNOPQRSTUVWXYZ"
LowerChars == "abcdefghijklmnopqrstuvwxyz"

\* upper-case letter -> lower-case letter
LowerOf == [c \in {CharAt(UpperChars, i) : i \in 1..Len(UpperChars)} |->
              CharAt(LowerChars, CHOOSE i \in 1..Len(UpperChars) : CharAt(UpperChars, i) = c)]

LowerChar(c) == IF c \in DOMAIN LowerOf THEN LowerOf[c] ELSE c

RECURSIVE ToLowerCase(_)
ToLowerCase(s) ==
    IF Len(s) = 0 THEN "" ELSE LowerChar(CharAt(s, 1)) \o ToLowerCase(Tail(s))

Digits == "0123456789"
DigitOf == [c \in {CharAt(Digits, i) : i \in 1..Len(Digits)} |->
              (CHOOSE i \in 1..Len(Digits) : CharAt(Digits, i) = c) - 1]
IsDigit(c) == c \in DOMAIN DigitOf
DigitVal(c) == DigitOf[c]

\* the index of the first character of s at or after i that is not a digit
RECURSIVE DigitsEnd(_, _)
DigitsEnd(s, i) ==
    IF i <= Len(s) /\ IsDigit(CharAt(s, i)) THEN DigitsEnd(s, i + 1) ELSE i

\* the value of the digits s[i..j-1] read as an integer
RECURSIVE DigitsValue(_, _, _)
DigitsValue(s, i, j) ==
    IF i >= j THEN 0
    ELSE DigitsValue(s, i, j - 1) * 10 + DigitVal(CharAt(s, j - 1))

RECURSIVE SkipSpaces(_, _)
SkipSpaces(s, i) ==
    IF i <= Len(s) /\ CharAt(s, i) = " " THEN SkipSpaces(s, i + 1) ELSE i

\* the first three fraction digits s[i..j-1] as thousandths
FractionThousandths(s, i, j) ==
    LET d(k) == IF i + k < j THEN DigitVal(CharAt(s, i + k)) ELSE 0
    IN  d(0) * 100 + d(1) * 10 + d(2)

NaN == [nan |-> TRUE, val |-> 0]
Num(v) == [nan |-> FALSE, val |-> v]

(***************************************************************************)
(* parseFloat: leading blanks, an optional sign, the longest decimal       *)
(* prefix; NaN when no digit is found.  The result is in thousandths.      *)
(***************************************************************************)
ParseFloat(v) ==
    LET s    == IF IsNumberCell(v) THEN NumberText(v) ELSE v
        b    == SkipSpaces(s, 1)
        neg  == b <= Len(s) /\ CharAt(s, b) = "-"
        sgn  == b <= Len(s) /\ CharAt(s, b) \in {"-", "+"}
        i0   == IF sgn THEN b + 1 ELSE b
        i1   == DigitsEnd(s, i0)
        dot  == i1 <= Len(s) /\ CharAt(s, i1) = "."
        f0   == i1 + 1
        f1   == IF dot THEN DigitsEnd(s, f0) ELSE f0
        any  == i1 > i0 \/ (dot /\ f1 > f0)
        mag  == DigitsValue(s, i0, i1) * 1000
                  + (IF dot THEN FractionThousandths(s, f0, f1) ELSE 0)
    IN  IF s = Undefined \/ s = Null \/ ~any THEN NaN
        ELSE Num(IF neg THEN 0 - mag ELSE mag)

\* String.prototype.trim, for blanks
RECURSIVE TrimEnd(_)
TrimEnd(s) ==
    IF Len(s) > 0 /\ CharAt(s, Len(s)) = " " THEN TrimEnd(SubSeq(s, 1, Len(s) - 1)) ELSE s

Trim(s) == LET b == SkipSpaces(s, 1) IN TrimEnd(SubSeq(s, b, Len(s)))

\* !isNaN(+value) for a trimmed, non-empty value in decimal notation: an
\* optional sign, digits, an optional fraction, nothing else
IsNumeric(s) ==
    LET sgn == Len(s) >= 1 /\ CharAt(s, 1) \in {"-", "+"}
        i0  == IF sgn THEN 2 ELSE 1
        i1  == DigitsEnd(s, i0)
        dot == i1 <= Len(s) /\ CharAt(s, i1) = "."
        f1  == IF dot THEN DigitsEnd(s, i1 + 1) ELSE i1
    IN  f1 = Len(s) + 1 /\ (i1 > i0 \/ (dot /\ f1 > i1 + 1))

\* numeric comparison: false as soon as an operand is NaN
Ge(x, k) == ~x.nan /\ x.val >= k
Le(x, k) == ~x.nan /\ x.val <= k

(***************************************************************************)
(* Rows of the dataset.                                                    *)
(***************************************************************************)
ColDepression == "Do you have Depression?"
ColAnxiety    == "Do you have Anxiety?"
ColPanic      == "Do you have Panic attack?"
ColCgpa       == "What is your CGPA?"
ColYear       == "Your current year of Study"
ColTreatment  == "Did you seek any specialist for a treatment?"

Row(dep, anx, panic, cgpa, year, treat) ==
    [h \in {ColDepression, ColAnxiety, ColPanic, ColCgpa, ColYear, ColTreatment} |->
        CASE h = ColDepression -> dep
          [] h = ColAnxiety    -> anx
          [] h = ColPanic      -> panic
          [] h = ColCgpa       -> cgpa
          [] h = ColYear       -> year
          [] OTHER             -> treat]

\* d[key]: undefined when the row has no such column
Field(d, key) == IF key \in DOMAIN d THEN d[key] ELSE Undefined

\* d3.autoType on one cell: blank -> null, true/false -> boolean, NaN or a
\* number -> number, anything else is left as it was read
autoTypeCell(cell) ==
    LET value == Trim(cell)
    IN  IF value = "" THEN Null
        ELSE IF value = "true" THEN JsTrue
        ELSE IF value = "false" THEN JsFalse
        ELSE IF value = "NaN" THEN NumberCell("NaN")
        ELSE IF IsNumeric(value) THEN NumberCell(value)
        ELSE cell

autoType(object) == [key \in DOMAIN object |-> autoTypeCell(object[key])]

\* d3.csv(url, d3.autoType): the rows of the file, each converted
csvRows(rows) == [i \in DOMAIN rows |-> autoType(rows[i])]

\* all sequences over S of length at most n
SeqsUpTo(S, n) == UNION {[1..k -> S] : k \in 0..n}

(***************************************************************************)
(* VennDiagramComponent.calculateFrequencies                               *)
(***************************************************************************)
RegionCodes == {"100", "010", "001", "110", "101", "011", "111"}

\* v?.toLowerCase(): undefined for undefined and null, a TypeError for a
\* boolean or a number, which have no such method
OptionalToLowerCase(v) ==
    IF v = Undefined \/ v = Null THEN Undefined
    ELSE IF v \in {JsTrue, JsFalse} \/ IsNumberCell(v) THEN TypeError
    ELSE ToLowerCase(v)

\* d[col]?.toLowerCase() === 'yes' ? 1 : 0
YesBit(d, col) ==
    LET lower == OptionalToLowerCase(Field(d, col))
    IN  IF lower = TypeError THEN TypeError
        ELSE IF lower = "yes" THEN "1" ELSE "0"

\* a template literal of three bits: the first exception ends the evaluation
BitsTemplate(b1, b2, b3) ==
    IF TypeError \in {b1, b2, b3} THEN TypeError ELSE b1 \o b2 \o b3

\* calculateFrequencies: const key (lines 84-86)
RegionKey(d) ==
    BitsTemplate(YesBit(d, ColDepression), YesBit(d, ColAnxiety), YesBit(d, ColPanic))

\* HeatMap.initChart: const regionKey (lines 395-397)
regionKey(d) ==
    BitsTemplate(YesBit(d, ColDepression), YesBit(d, ColAnxiety), YesBit(d, ColPanic))

\* The combinations object: count holds its numeric entries, nan the keys
\* whose entry is NaN (undefined++ on a key the literal does not initialise).
EmptyCombinations == [count |-> [c \in RegionCodes |-> 0], nan |-> {}]

\* mutant: combinations[key] = 1 in place of combinations[key]++
IncrementAssignsOne(combinations, key) ==
    IF key \in DOMAIN combinations.count
    THEN [combinations EXCEPT !.count[key] = 1]
    ELSE [combinations EXCEPT !.nan = @ \cup {key}]

\* combinations[key]++
Increment(combinations, key) ==
    IF key \in DOMAIN combinations.count
    THEN [combinations EXCEPT !.count[key] = @ + 1]
    ELSE [combinations EXCEPT !.nan = @ \cup {key}]

RECURSIVE CountInto(_, _)
CountInto(combinations, data) ==
    IF data = <<>> THEN combinations
    ELSE CountInto(Increment(combinations, RegionKey(Head(data))), Tail(data))

calculateFrequencies(data) == CountInto(EmptyCombinations, data)

\* the forEach ends with the exception of the first row whose key raises one
calculateFrequenciesThrows(data) ==
    \E i \in DOMAIN data : RegionKey(data[i]) = TypeError

(***************************************************************************)
(* HeatMap.initChart: filteredData and frequencyData                       *)
(***************************************************************************)
cgpaRanges == <<"0 - 1.99", "2.00 - 2.49", "2.50 - 2.99", "3.00 - 3.49", "3.50 - 4.00">>
yearsOfStudy == <<"year 1", "year 2", "year 3", "year 4">>

\* a string | null used as a condition
Truthy(v) == v # Null /\ v # Undefined /\ v # ""

\* mutant: the region filter is never applied
filteredDataUnfiltered(data, region) == data

filteredData(data, region) ==
    IF Truthy(region)
    THEN SelectSeq(data, LAMBDA d : regionKey(d) = region)
    ELSE data

CellCount(data, cgpa, year) ==
    Len(SelectSeq(data, LAMBDA d : Field(d, ColCgpa) = cgpa /\ Field(d, ColYear) = year))

\* cgpaRanges.forEach(cgpa => yearsOfStudy.forEach(year => push({cgpa, year, count})))
frequencyGrid(fd) ==
    LET ny == Len(yearsOfStudy)
    IN  [k \in 1..(Len(cgpaRanges) * ny) |->
            LET cgpa == cgpaRanges[((k - 1) \div ny) + 1]
                year == yearsOfStudy[((k - 1) % ny) + 1]
            IN  [cgpa |-> cgpa, year |-> year, count |-> CellCount(fd, cgpa, year)]]

buildFrequencyData(data, region) ==
    CHOOSE g \in {frequencyGrid(fd) : fd \in {filteredData(data, region)}} : TRUE

\* the filter callback's exception ends initChart before any cell is counted
filteredDataThrows(data, region) ==
    Truthy(region) /\ \E i \in DOMAIN data : regionKey(data[i]) = TypeError

(***************************************************************************)
(* Sankey.getCgpabin (thresholds in thousandths)                           *)
(***************************************************************************)
getCgpabin(cgpa) ==
    IF Ge(cgpa, 0) /\ Le(cgpa, 1990) THEN "0-1.99"
    ELSE IF Ge(cgpa, 2000) /\ Le(cgpa, 2490) THEN "2.0-2.49"
    ELSE IF Ge(cgpa, 2500) /\ Le(cgpa, 2990) THEN "2.5-2.99"
    ELSE IF Ge(cgpa, 3000) /\ Le(cgpa, 3490) THEN "3.0-3.49"
    ELSE IF Ge(cgpa, 3500) /\ Le(cgpa, 4000) THEN "3.5-4.0"
    ELSE "Unknown"

cgpaBinLabels == <<"0-1.99", "2.0-2.49", "2.5-2.99", "3.0-3.49", "3.5-4.0">>

(***************************************************************************)
(* Sankey.initChart: node registry and link map                            *)
(***************************************************************************)
EmptySankeyData == [nodes |-> <<>>, links |-> <<>>]

Range(s) == {s[i] : i \in DOMAIN s}

\* mutant: the node is pushed without looking it up
addNodeAlwaysPushes(sd, name) == [sd EXCEPT !.nodes = Append(@, name)]

\* addNode: nodeMap.get(name), else register and push; returns the node
addNode(sd, name) ==
    IF name \in Range(sd.nodes) THEN sd
    ELSE [sd EXCEPT !.nodes = Append(@, name)]

\* mutant: every link is set anew, none accumulated
addLinkAlwaysSets(sd, source, target) ==
    [sd EXCEPT !.links =
        Append(@, [key |-> source \o "->" \o target,
                   source |-> source, target |-> target, value |-> 1])]

\* linkMap.has(key) ? value += 1 : set(key, {source, target, value: 1})
addLink(sd, source, target) ==
    LET key == source \o "->" \o target
    IN  IF \E i \in DOMAIN sd.links : sd.links[i].key = key
        THEN [sd EXCEPT !.links =
                [i \in DOMAIN @ |->
                    IF @[i].key = key THEN [@[i] EXCEPT !.value = @ + 1] ELSE @[i]]]
        ELSE [sd EXCEPT !.links =
                Append(@, [key |-> key, source |-> source, target |-> target, value |-> 1])]

\* the three node names one row derives under the active condition
cgpaNodeName(d) == getCgpabin(ParseFloat(Field(d, ColCgpa)))

conditionNodeName(d, condition) ==
    condition \o " " \o
      (IF Field(d, "Do you have " \o condition \o "?") = "Yes" THEN "Yes" ELSE "No")

treatmentNodeName(d) ==
    "Treatment " \o (IF Field(d, ColTreatment) = "Yes" THEN "Yes" ELSE "No")

\* mutant: a row whose CGPA is not a number is skipped whole
processRowDropsUnparseable(sd, d, condition) ==
    IF ParseFloat(Field(d, ColCgpa)).nan THEN sd
    ELSE addLink(addLink(addNode(addNode(addNode(sd, cgpaNodeName(d)),
                                         conditionNodeName(d, condition)),
                                 treatmentNodeName(d)),
                         cgpaNodeName(d), conditionNodeName(d, condition)),
                 conditionNodeName(d, condition), treatmentNodeName(d))

\* mutant: a row whose CGPA is not a number gets no CGPA node and no CGPA link
processRowSkipsCgpaOfUnparseable(sd, d, condition) ==
    IF ParseFloat(Field(d, ColCgpa)).nan
    THEN addLink(addNode(addNode(sd, conditionNodeName(d, condition)),
                         treatmentNodeName(d)),
                 conditionNodeName(d, condition), treatmentNodeName(d))
    ELSE addLink(addLink(addNode(addNode(addNode(sd, cgpaNodeName(d)),
                                         conditionNodeName(d, condition)),
                                 treatmentNodeName(d)),
                         cgpaNodeName(d), conditionNodeName(d, condition)),
                 conditionNodeName(d, condition), treatmentNodeName(d))

\* one iteration of cleanData.forEach
processRow(sd, d, condition) ==
    LET cgpaNode      == cgpaNodeName(d)
        conditionNode == conditionNodeName(d, condition)
        treatmentNode == treatmentNodeName(d)
        n1 == addNode(sd, cgpaNode)
        n2 == addNode(n1, conditionNode)
        n3 == addNode(n2, treatmentNode)
        l1 == addLink(n3, cgpaNode, conditionNode)
    IN  addLink(l1, conditionNode, treatmentNode)

RECURSIVE processRows(_, _, _)
processRows(sd, data, condition) ==
    IF data = <<>> THEN sd
    ELSE processRows(processRow(sd, Head(data), condition), Tail(data), condition)

buildSankeyData(data, condition) == processRows(EmptySankeyData, data, condition)

(***************************************************************************)
(* The nodeSort comparator and the layout's use of it                      *)
(***************************************************************************)
\* Array.prototype.indexOf, zero based, -1 when absent
IndexOf(arr, x) ==
    IF \E i \in DOMAIN arr : arr[i] = x
    THEN (CHOOSE i \in DOMAIN arr : arr[i] = x /\ \A j \in 1..(i - 1) : arr[j] # x) - 1
    ELSE -1

\* mutant: a CGPA bin always sorts first, whatever it is compared with
nodeSortBinAlwaysFirst(a, b, condition) ==
    IF IndexOf(cgpaBinLabels, a) >= 0 THEN -1
    ELSE IF IndexOf(cgpaBinLabels, b) >= 0 THEN 1
    ELSE 0

\* mutant: the comparator ranks the CGPA bins in descending index order
nodeSortBinsDescending(a, b, condition) ==
    IF IndexOf(cgpaBinLabels, a) >= 0 /\ IndexOf(cgpaBinLabels, b) >= 0
    THEN IndexOf(cgpaBinLabels, b) - IndexOf(cgpaBinLabels, a)
    ELSE 0

nodeSort(a, b, condition) ==
    LET isCGPAA == IndexOf(cgpaBinLabels, a) >= 0
        isCGPAB == IndexOf(cgpaBinLabels, b) >= 0
        isConditionA == StartsWith(a, condition \o " ")
        isConditionB == StartsWith(b, condition \o " ")
        isTreatmentA == StartsWith(a, "Treatment ")
        isTreatmentB == StartsWith(b, "Treatment ")
        cOrder == <<condition \o " No", condition \o " Yes">>
        tOrder == <<"Treatment No", "Treatment Yes">>
    IN  IF isCGPAA /\ isCGPAB
          THEN IndexOf(cgpaBinLabels, a) - IndexOf(cgpaBinLabels, b)
        ELSE IF isCGPAA THEN -1
        ELSE IF isCGPAB THEN 1
        ELSE IF isConditionA /\ isConditionB
          THEN IndexOf(cOrder, a) - IndexOf(cOrder, b)
        ELSE IF isConditionA THEN -1
        ELSE IF isConditionB THEN 1
        ELSE IF isTreatmentA /\ isTreatmentB
          THEN IndexOf(tOrder, a) - IndexOf(tOrder, b)
        ELSE IF isTreatmentA THEN -1
        ELSE IF isTreatmentB THEN 1
        ELSE 0

\* stable insertion of x into a sorted column: before the first y with cmp(x, y) < 0
RECURSIVE insertSorted(_, _, _)
insertSorted(col, x, condition) ==
    IF col = <<>> THEN <<x>>
    ELSE IF nodeSort(x, Head(col), condition) < 0 THEN <<x>> \o col
    ELSE <<Head(col)>> \o insertSorted(Tail(col), x, condition)

\* column.sort(sort)
RECURSIVE sortColumn(_, _)
sortColumn(col, condition) ==
    IF col = <<>> THEN <<>>
    ELSE insertSorted(sortColumn(SubSeq(col, 1, Len(col) - 1), condition),
                      col[Len(col)], condition)

\* node.depth under nodeAlign(sankeyLeft): 0 without incoming link, else one
\* more than the deepest source
RECURSIVE nodeDepth(_, _)
nodeDepth(sd, name) ==
    LET incoming == {i \in DOMAIN sd.links : sd.links[i].target = name}
        up == {nodeDepth(sd, sd.links[i].source) : i \in incoming}
    IN  IF incoming = {} THEN 0
        ELSE 1 + (CHOOSE m \in up : \A k \in up : k <= m)

\* mutant: the comparator keeps the condition it was first created with
computeColumnsStaleCondition(sd, condition) ==
    LET depths == {nodeDepth(sd, sd.nodes[i]) : i \in DOMAIN sd.nodes}
        top == IF depths = {} THEN -1 ELSE CHOOSE m \in depths : \A k \in depths : k <= m
    IN  [c \in 1..(top + 1) |->
            sortColumn(SelectSeq(sd.nodes, LAMBDA n : nodeDepth(sd, n) = c - 1), "Depression")]

\* the layout's columns: the nodes of each depth in registration order, sorted
computeColumns(sd, condition) ==
    LET depths == {nodeDepth(sd, sd.nodes[i]) : i \in DOMAIN sd.nodes}
        top == IF depths = {} THEN -1 ELSE CHOOSE m \in depths : \A k \in depths : k <= m
    IN  [c \in 1..(top + 1) |->
            sortColumn(SelectSeq(sd.nodes, LAMBDA n : nodeDepth(sd, n) = c - 1), condition)]

(***************************************************************************)
(* The sizes of the three containers.                                      *)
(***************************************************************************)
Views == {"venn", "heat", "sankey"}

Conditions == {"Depression", "Panic attack", "Anxiety"}

\* window widths: below and above the breakpoint of the two-column grid
Viewports == {320, 1280}

Min(a, b) == IF a <= b THEN a ELSE b

\* the width of a grid column (xs=12, md=6) in a container of at most 1200px
columnWidth(w) == IF w >= 900 THEN Min(w, 1200) \div 2 ELSE w

\* useState size of each view
initialSize ==
    [v \in Views |->
        CASE v = "venn" -> [width |-> 400, height |-> 300]
          [] v = "heat" -> [width |-> 500, height |-> 300]
          [] OTHER      -> [width |-> 900, height |-> 400]]

\* What the view measures of its container in a window of width w: the Venn
\* div is 100% wide, at most 400px, and 300px high; the heat map div is
\* styled with the view's own size sz; the Sankey div is as wide as its
\* column and holds the 600px svg.
measuredSize(v, w, sz) ==
    CASE v = "venn" -> [width |-> Min(columnWidth(w), 400), height |-> 300]
      [] v = "heat" -> sz
      [] OTHER      -> [width |-> columnWidth(w), height |-> 600]

(***************************************************************************)
(* The redraw effects of the three views.                                  *)
(***************************************************************************)
\* mutant: the heat map's effect does not depend on selectedRegion
effectViewsHeatIgnoresRegion(changed, region, condition) ==
    changed
      \cup (IF region # selectedRegion THEN {"venn"} ELSE {})
      \cup (IF condition # selectedCondition THEN {"sankey"} ELSE {})

\* The views whose effect dependencies change in a step that leaves the
\* selection at (region, condition); changed holds the views whose
\* setCleanData or setSize ran.
effectViews(changed, region, condition) ==
    changed
      \cup (IF region # selectedRegion THEN {"venn", "heat"} ELSE {})
      \cup (IF condition # selectedCondition THEN {"sankey"} ELSE {})

\* the tooltip divs of a container after one more initChart
tooltipsAfterDraw(v, n) ==
    CASE v = "venn"   -> n                          \* made once on mount
      [] v = "heat"   -> Min(n + 1, MaxTooltips)    \* appended, never removed
      [] OTHER        -> 1                          \* removed, then appended

\* mutant: the effects have no early return
effectDrawsUnguarded(changed, data, region, condition, sz) ==
    effectViews(changed, region, condition)

\* The effects that get past their early return after a step that leaves the
\* state at (data, region, condition, sz): those of the views with rows and a
\* non-zero size (and, for the Venn diagram, with its tooltip div).
effectDraws(changed, data, region, condition, sz) ==
    {v \in effectViews(changed, region, condition) :
        /\ Len(data[v]) # 0
        /\ sz[v].width # 0 /\ sz[v].height # 0
        /\ (v = "venn" => tooltips["venn"] # 0)}

\* The effects that run after a step that leaves the state at
\* (data, region, condition, sz).  An exception raised inside an effect
\* unmounts the page.
runEffects(changed, data, region, condition, sz) ==
    LET draws == effectDraws(changed, data, region, condition, sz)
        throws == \/ "venn" \in draws /\ calculateFrequenciesThrows(data["venn"])
                  \/ "heat" \in draws /\ filteredDataThrows(data["heat"], region)
    IN  /\ ~error
        /\ \E t \in {throws} :
            IF t
            THEN /\ error' = TRUE
                 /\ drawn' = [v \in Views |-> FALSE]
                 /\ tooltips' = [v \in Views |-> 0]
                 /\ UNCHANGED <<frequencies, frequencyData, sankeyData, columns>>
            ELSE /\ error' = FALSE
                 /\ drawn' = [v \in Views |-> drawn[v] \/ v \in draws]
                 /\ tooltips' = [v \in Views |->
                                   IF v \in draws THEN tooltipsAfterDraw(v, tooltips[v])
                                   ELSE tooltips[v]]
                 /\ frequencies' =
                      IF "venn" \in draws THEN calculateFrequencies(data["venn"])
                      ELSE frequencies
                 /\ frequencyData' =
                      IF "heat" \in draws THEN buildFrequencyData(data["heat"], region)
                      ELSE frequencyData
                 /\ \E sd \in {IF "sankey" \in draws
                               THEN buildSankeyData(data["sankey"], condition)
                               ELSE sankeyData} :
                      /\ sankeyData' = sd
                      /\ columns' = IF "sankey" \in draws THEN computeColumns(sd, condition)
                                    ELSE columns

(***************************************************************************)
(* Actions                                                                 *)
(***************************************************************************)
\* d3.csv resolves: setCleanData(data), then the view's redraw effect
LoadResolve(v) ==
    /\ loadPending[v]
    /\ loadPending' = [loadPending EXCEPT ![v] = FALSE]
    /\ \E data \in {csvRows(file)} :
        /\ cleanData' = [cleanData EXCEPT ![v] = data]
        /\ runEffects({v}, [cleanData EXCEPT ![v] = data], selectedRegion,
                      selectedCondition, size)
    /\ UNCHANGED <<file, selectedRegion, selectedCondition, lastEvent>>
    /\ UNCHANGED resizeVars

\* d3.csv rejects: the catch logs, nothing else changes
LoadReject(v) ==
    /\ loadPending[v]
    /\ loadPending' = [loadPending EXCEPT ![v] = FALSE]
    /\ UNCHANGED <<file, cleanData, selectedRegion, selectedCondition, lastEvent>>
    /\ UNCHANGED resizeVars
    /\ runEffects({}, cleanData, selectedRegion, selectedCondition, size)

\* mutant: a click on the region already selected deselects it
RegionClickToggles(code) ==
    /\ drawn["venn"]
    /\ selectedRegion' = IF selectedRegion = code THEN Null ELSE code
    /\ lastEvent' = <<"select", code>>
    /\ UNCHANGED <<file, loadPending, cleanData, selectedCondition>>
    /\ UNCHANGED resizeVars
    /\ runEffects({}, cleanData, IF selectedRegion = code THEN Null ELSE code,
                  selectedCondition, size)

\* Layout's onRegionClick prop: setSelectedRegion(regionCode)
onRegionClick(regionCode) ==
    /\ selectedRegion' = regionCode
    /\ lastEvent' = <<"select", regionCode>>
    /\ UNCHANGED <<file, loadPending, cleanData, selectedCondition>>
    /\ UNCHANGED resizeVars
    /\ runEffects({}, cleanData, regionCode, selectedCondition, size)

\* a click on a region's rect or count label: handleRegionClick(pos.code)
RegionClick(code) ==
    /\ drawn["venn"]
    /\ onRegionClick(code)

\* mutant: a click on a circle selects the all-zero code
CircleClickSelects ==
    /\ drawn["venn"]
    /\ selectedRegion' = "000"
    /\ lastEvent' = <<"circle", Null>>
    /\ UNCHANGED <<file, loadPending, cleanData, selectedCondition>>
    /\ UNCHANGED resizeVars
    /\ runEffects({}, cleanData, "000", selectedCondition, size)

\* a click on one of the three circles: the tooltip is hidden, nothing else
CircleClick ==
    /\ drawn["venn"]
    /\ ~error
    /\ lastEvent' = <<"circle", Null>>
    /\ UNCHANGED <<file, loadPending, cleanData, selectedRegion, selectedCondition,
                   drawn, frequencies, frequencyData, sankeyData, columns,
                   error, tooltips>>
    /\ UNCHANGED resizeVars

\* a click on the svg background, which has no click handler
BackgroundClick ==
    /\ drawn["venn"]
    /\ ~error
    /\ lastEvent' = <<"background", Null>>
    /\ UNCHANGED <<file, loadPending, cleanData, selectedRegion, selectedCondition,
                   drawn, frequencies, frequencyData, sankeyData, columns,
                   error, tooltips>>
    /\ UNCHANGED resizeVars

\* the Reset button: setSelectedRegion(null)
Reset ==
    /\ selectedRegion' = Null
    /\ lastEvent' = <<"reset", Null>>
    /\ UNCHANGED <<file, loadPending, cleanData, selectedCondition>>
    /\ UNCHANGED resizeVars
    /\ runEffects({}, cleanData, Null, selectedCondition, size)

\* mutant: changing the condition also clears the region selection
SetConditionClearsRegion(c) ==
    /\ c # selectedCondition
    /\ selectedCondition' = c
    /\ selectedRegion' = Null
    /\ lastEvent' = <<"setCondition", c>>
    /\ UNCHANGED <<file, loadPending, cleanData>>
    /\ UNCHANGED resizeVars
    /\ runEffects({}, cleanData, Null, c, size)

\* the condition select's onChange: setSelectedCondition(e.target.value)
SetCondition(c) ==
    /\ c # selectedCondition
    /\ selectedCondition' = c
    /\ lastEvent' = <<"setCondition", c>>
    /\ UNCHANGED <<file, loadPending, cleanData, selectedRegion>>
    /\ UNCHANGED resizeVars
    /\ runEffects({}, cleanData, selectedRegion, c, size)

\* the history of the run of resizes that a resize event extends or starts
burstBase ==
    IF burst.open THEN burst
    ELSE [open |-> TRUE, events |-> 0, updates |-> [v \in Views |-> 0]]

\* A window resize to width w.  The resize listeners of the Venn diagram and
\* of the heat map call setSize at once; the Sankey's ResizeObserver calls
\* the debounced onResize, which restarts the 200 ms timer with the new size.
Resize(w) ==
    /\ w # viewport
    /\ burstBase.events < MaxBurst
    /\ viewport' = w
    /\ \E sz \in {[v \in Views |-> IF v = "sankey" THEN size[v]
                                    ELSE measuredSize(v, w, size[v])]} :
        /\ size' = sz
        /\ runEffects({"venn", "heat"}, cleanData, selectedRegion, selectedCondition, sz)
    /\ resizeTimer' = [pending |-> TRUE, size |-> measuredSize("sankey", w, size["sankey"])]
    /\ burst' = [open |-> TRUE, events |-> burstBase.events + 1,
                 updates |-> [v \in Views |->
                     burstBase.updates[v] + (IF v = "sankey" THEN 0 ELSE 1)]]
    /\ UNCHANGED <<file, loadPending, cleanData, selectedRegion, selectedCondition,
                   lastEvent>>

\* 200 ms pass without a resize: the run of resizes is over and the debounce
\* timer, if one is pending, fires setSize with the size it holds
DebounceElapsed ==
    /\ burst.open \/ resizeTimer.pending
    /\ resizeTimer' = [resizeTimer EXCEPT !.pending = FALSE]
    /\ burst' = [burst EXCEPT !.open = FALSE,
                              !.updates["sankey"] = @ + (IF resizeTimer.pending THEN 1 ELSE 0)]
    /\ \E sz \in {IF resizeTimer.pending THEN [size EXCEPT !["sankey"] = resizeTimer.size]
                   ELSE size} :
        /\ size' = sz
        /\ runEffects(IF resizeTimer.pending THEN {"sankey"} ELSE {}, cleanData,
                      selectedRegion, selectedCondition, sz)
    /\ UNCHANGED <<file, loadPending, cleanData, selectedRegion, selectedCondition,
                   lastEvent, viewport>>

(***************************************************************************)
(* Input rows                                                              *)
(***************************************************************************)
\* rows of the page as shipped: two listed grid cells, and a row with a
\* non-number for its CGPA and an unlisted year
SampleRows ==
    { Row("Yes", "No", "Yes", "3.00 - 3.49", "year 2", "No"),
      Row("Yes", "Yes", "Yes", "3.50 - 4.00", "year 1", "Yes"),
      Row("No", "Yes", "No", "N/A", "Year 4", "Yes") }

\* (depression, anxiety, panic attack) answers: region codes 000, 101, 111
AggAnswers ==
    { <<"No", "No", "No">>, <<"Yes", "No", "Yes">>, <<"Yes", "Yes", "Yes">> }

\* rows for the region and grid aggregation: a range label and a bare number,
\* a listed and an unlisted year
AggRows ==
    { Row(t[1], t[2], t[3], cgpa, year, "No") :
        t \in AggAnswers, cgpa \in {"3.00 - 3.49", "3.2"}, year \in {"year 2", "Year 2"} }

\* answers in which every condition column holds a Yes and a No
FlowAnswers == { <<"Yes", "No", "Yes">>, <<"No", "Yes", "No">> }

\* rows for the flow graph: two values of one bin, two range labels of other
\* bins, a non-number
FlowRows ==
    { Row(t[1], t[2], t[3], cgpa, "year 1", treat) :
        t \in FlowAnswers,
        cgpa \in {"3.6", "3.7", "2.00 - 2.49", "0 - 1.99", "N/A"},
        treat \in {"Yes", "No"} }

(***************************************************************************)
(* Specifications                                                          *)
(***************************************************************************)
\* the widest window: every container at its largest
WideViewport == CHOOSE w \in Viewports : \A u \in Viewports : u <= w

NoBurst == [open |-> FALSE, events |-> 0, updates |-> [v \in Views |-> 0]]

\* the sizes once the mount-time measurements of a window of width w are in
settledSize(w) == [v \in Views |-> measuredSize(v, w, initialSize[v])]

\* The page right after mount in a window of width w: every load pending,
\* nothing drawn.  The Venn tooltip div exists, the Venn diagram and the
\* heat map have measured their containers, the Sankey's first
\* ResizeObserver callback has started the debounce timer.
InitMounted(files, widths) ==
    /\ file \in files
    /\ loadPending = [v \in Views |-> TRUE]
    /\ cleanData = [v \in Views |-> <<>>]
    /\ selectedRegion = Null
    /\ selectedCondition = "Depression"
    /\ drawn = [v \in Views |-> FALSE]
    /\ frequencies = EmptyCombinations
    /\ frequencyData = <<>>
    /\ sankeyData = EmptySankeyData
    /\ columns = <<>>
    /\ lastEvent = <<"init", Null>>
    /\ error = FALSE
    /\ tooltips = [v \in Views |-> IF v = "venn" THEN 1 ELSE 0]
    /\ viewport \in widths
    /\ size = [v \in Views |-> IF v = "sankey" THEN initialSize[v]
                               ELSE measuredSize(v, viewport, initialSize[v])]
    /\ resizeTimer = [pending |-> TRUE,
                      size |-> measuredSize("sankey", viewport, initialSize["sankey"])]
    /\ burst = NoBurst

\* the page 200 ms after mount in the widest window: every load still pending
InitPage(files) ==
    /\ file \in files
    /\ loadPending = [v \in Views |-> TRUE]
    /\ cleanData = [v \in Views |-> <<>>]
    /\ selectedRegion = Null
    /\ selectedCondition = "Depression"
    /\ drawn = [v \in Views |-> FALSE]
    /\ frequencies = EmptyCombinations
    /\ frequencyData = <<>>
    /\ sankeyData = EmptySankeyData
    /\ columns = <<>>
    /\ lastEvent = <<"init", Null>>
    /\ error = FALSE
    /\ tooltips = [v \in Views |-> IF v = "venn" THEN 1 ELSE 0]
    /\ viewport = WideViewport
    /\ size = settledSize(WideViewport)
    /\ resizeTimer = [pending |-> FALSE, size |-> settledSize(WideViewport)["sankey"]]
    /\ burst = NoBurst

\* the page once the three loads have resolved and the effects have drawn
InitLoaded(files) ==
    \E rows \in files : \E f \in {csvRows(rows)} :
      \E sd \in {IF Len(f) # 0 THEN buildSankeyData(f, "Depression") ELSE EmptySankeyData} :
        /\ file = rows
        /\ loadPending = [v \in Views |-> FALSE]
        /\ cleanData = [v \in Views |-> f]
        /\ selectedRegion = Null
        /\ selectedCondition = "Depression"
        /\ drawn = [v \in Views |-> Len(f) # 0]
        /\ frequencies = IF Len(f) # 0 THEN calculateFrequencies(f) ELSE EmptyCombinations
        /\ frequencyData = IF Len(f) # 0 THEN buildFrequencyData(f, Null) ELSE <<>>
        /\ sankeyData = sd
        /\ columns = IF Len(f) # 0 THEN computeColumns(sd, "Depression") ELSE <<>>
        /\ lastEvent = <<"init", Null>>
        /\ error = FALSE
        /\ tooltips = [v \in Views |-> IF v = "venn" \/ Len(f) # 0 THEN 1 ELSE 0]
        /\ viewport = WideViewport
        /\ size = settledSize(WideViewport)
        /\ resizeTimer = [pending |-> FALSE, size |-> settledSize(WideViewport)["sankey"]]
        /\ burst = NoBurst

Init == InitPage(SeqsUpTo(SampleRows, MaxRecords))

Next ==
    \/ \E v \in Views : LoadResolve(v)
    \/ \E v \in Views : LoadReject(v)
    \/ \E code \in RegionCodes : RegionClick(code)
    \/ Reset
    \/ \E c \in Conditions : SetCondition(c)

Spec == Init /\ [][Next]_vars

\* the Venn diagram and the heat map over every bounded record collection
InitAgg == InitLoaded(SeqsUpTo(AggRows, MaxRecords))

NextAgg ==
    \/ \E code \in RegionCodes : RegionClick(code)
    \/ Reset

SpecAgg == InitAgg /\ [][NextAgg]_vars

\* the flow diagram over every bounded record collection
InitFlow == InitLoaded(SeqsUpTo(FlowRows, MaxRecords))

NextFlow == \E c \in Conditions : SetCondition(c)

SpecFlow == InitFlow /\ [][NextFlow]_vars

(***************************************************************************)
(* Measures used by the properties                                         *)
(***************************************************************************)
RECURSIVE SumOver(_, _)
SumOver(f, S) ==
    IF S = {} THEN 0
    ELSE LET x == CHOOSE y \in S : TRUE IN f[x] + SumOver(f, S \ {x})

RegionTotal == SumOver(frequencies.count, RegionCodes)

GridTotal == SumOver([k \in DOMAIN frequencyData |-> frequencyData[k].count],
                     DOMAIN frequencyData)

LinkWeight(I) == SumOver([k \in DOMAIN sankeyData.links |-> sankeyData.links[k].value], I)

CondCols == {ColDepression, ColAnxiety, ColPanic}

\* the row answers yes, in whatever letter case, to at least one condition
HasCondition(d) == \E col \in CondCols : ToLowerCase(d[col]) = "yes"

\* the row's cells name a cell of the grid
Listed(d) ==
    /\ \E i \in DOMAIN cgpaRanges : d[ColCgpa] = cgpaRanges[i]
    /\ \E j \in DOMAIN yearsOfStudy : d[ColYear] = yearsOfStudy[j]

(***************************************************************************)
(* C1 (as stated): the seven region counts add up to the number of records *)
(* of every non-empty record collection.                                   *)
(***************************************************************************)
C1_AllCounted ==
    drawn["venn"] => RegionTotal = Len(cleanData["venn"])

(***************************************************************************)
(* C1 (amended): the seven region counts add up to the number of records   *)
(* that answer yes to at least one condition; a record with no condition   *)
(* is counted in none of the seven regions.                                *)
(***************************************************************************)
C1_ConditionRowsCounted ==
    drawn["venn"] =>
        LET data == cleanData["venn"]
        IN  /\ RegionTotal = Cardinality({i \in DOMAIN data : HasCondition(data[i])})
            /\ \A c \in RegionCodes :
                 frequencies.count[c] =
                   Cardinality({i \in DOMAIN data : RegionKey(data[i]) = c})

C1_Witness ==
    /\ drawn["venn"]
    /\ \E i, j \in DOMAIN cleanData["venn"] :
         /\ ~HasCondition(cleanData["venn"][i])
         /\ HasCondition(cleanData["venn"][j])
    /\ RegionTotal = 1

(***************************************************************************)
(* C2 (as stated): the 20 grid counts add up to the number of records when *)
(* no region is selected, and to the selected region's count otherwise.    *)
(***************************************************************************)
C2_GridTotalIsRecordCount ==
    (drawn["heat"] /\ drawn["venn"]) =>
        GridTotal = IF selectedRegion = Null THEN Len(cleanData["heat"])
                    ELSE frequencies.count[selectedRegion]

(***************************************************************************)
(* C2 (amended): the 20 grid counts add up to the number of records of the *)
(* selection (all records, or those of the selected region) whose CGPA     *)
(* cell is one of the five range labels and whose year cell is one of the  *)
(* four year labels; when every record is such, that is the number of      *)
(* records, respectively the selected region's count.                      *)
(***************************************************************************)
C2_GridTotalIsListedCount ==
    (drawn["heat"] /\ drawn["venn"]) =>
        LET data == cleanData["heat"]
            inSel(d) == selectedRegion = Null \/ RegionKey(d) = selectedRegion
        IN  /\ GridTotal =
                 Cardinality({i \in DOMAIN data : inSel(data[i]) /\ Listed(data[i])})
            /\ Len(frequencyData) = 20
            /\ (\A i \in DOMAIN data : Listed(data[i])) =>
                 GridTotal = IF selectedRegion = Null THEN Len(data)
                             ELSE frequencies.count[selectedRegion]

C2_Witness ==
    /\ drawn["heat"]
    /\ selectedRegion \in RegionCodes
    /\ GridTotal = 1
    /\ frequencies.count[selectedRegion] = 2

(***************************************************************************)
(* Flow graph measures                                                     *)
(***************************************************************************)
Links == sankeyData.links

TreatmentLinks == {k \in DOMAIN Links : StartsWith(Links[k].target, "Treatment ")}

\* links that leave a node of the first rank
FirstStageLinks == {k \in DOMAIN Links : nodeDepth(sankeyData, Links[k].source) = 0}

BinLinks == {k \in DOMAIN Links : \E b \in DOMAIN cgpaBinLabels : Links[k].source = cgpaBinLabels[b]}

Parses(d) == ~ParseFloat(d[ColCgpa]).nan

\* the parsed CGPA lies in one of the five ranges (thousandths)
InBinRange(d) ==
    LET v == ParseFloat(d[ColCgpa]).val
    IN  /\ Parses(d)
        /\ \/ (0 <= v /\ v <= 1990)
           \/ (2000 <= v /\ v <= 2490)
           \/ (2500 <= v /\ v <= 2990)
           \/ (3000 <= v /\ v <= 3490)
           \/ (3500 <= v /\ v <= 4000)

\* the (source, target) pairs a row derives under the active condition
FirstPair(d) == <<cgpaNodeName(d), conditionNodeName(d, selectedCondition)>>
SecondPair(d) == <<conditionNodeName(d, selectedCondition), treatmentNodeName(d)>>

HasLink(pair) == \E k \in DOMAIN Links : <<Links[k].source, Links[k].target>> = pair

FlowData == cleanData["sankey"]

(***************************************************************************)
(* C3: for every record collection and active condition, the weights of    *)
(* the edges into treatment-status nodes add up to the number of records,  *)
(* whether or not a record's CGPA parses.                                  *)
(***************************************************************************)
C3_TreatmentWeightIsRecordCount ==
    drawn["sankey"] =>
        /\ LinkWeight(TreatmentLinks) = Len(FlowData)
        /\ \A i \in DOMAIN FlowData : HasLink(SecondPair(FlowData[i]))

C3_Witness ==
    /\ drawn["sankey"]
    /\ lastEvent[1] = "setCondition"
    /\ Len(FlowData) = 2
    /\ ~Parses(FlowData[1])
    /\ Parses(FlowData[2])
    /\ LinkWeight(TreatmentLinks) = 2

(***************************************************************************)
(* C4 (as stated): a record whose CGPA does not parse creates no first-    *)
(* stage node and adds weight to no edge leaving a first-stage node, so    *)
(* the weights of the edges leaving first-stage nodes add up to the number *)
(* of records with a parseable CGPA.                                       *)
(***************************************************************************)
C4_UnparseableSkipped ==
    drawn["sankey"] =>
        LinkWeight(FirstStageLinks) =
            Cardinality({i \in DOMAIN FlowData : Parses(FlowData[i])})

(***************************************************************************)
(* C4 (amended): a record whose CGPA does not parse registers the first-   *)
(* stage node "Unknown" and adds weight 1 to the edge from "Unknown" to    *)
(* its condition node, and weight 1 to its condition->treatment edge.  The *)
(* weights of the edges leaving first-stage nodes add up to the number of  *)
(* records; those leaving the five CGPA-bin nodes add up to the number of  *)
(* records whose CGPA parses to a value inside one of the five ranges.     *)
(***************************************************************************)
C4_UnparseableGoesToUnknown ==
    drawn["sankey"] =>
        /\ LinkWeight(FirstStageLinks) = Len(FlowData)
        /\ LinkWeight(BinLinks) =
             Cardinality({i \in DOMAIN FlowData : InBinRange(FlowData[i])})
        /\ \A i \in DOMAIN FlowData :
             ~Parses(FlowData[i]) =>
                /\ "Unknown" \in Range(sankeyData.nodes)
                /\ HasLink(<<"Unknown", conditionNodeName(FlowData[i], selectedCondition)>>)
                /\ HasLink(SecondPair(FlowData[i]))

C4_Witness ==
    /\ drawn["sankey"]
    /\ Len(FlowData) = 2
    /\ ~Parses(FlowData[1])
    /\ InBinRange(FlowData[2])
    /\ LinkWeight(BinLinks) = 1
    /\ LinkWeight(FirstStageLinks) = 2

(***************************************************************************)
(* C5: the edge list holds at most one edge per (source, target) pair, and *)
(* each edge's weight is at least 1 and is the number of records whose     *)
(* derived names match the pair; records with CGPA 3.6 and 3.7 share one   *)
(* edge out of "3.5-4.0" with weight 2.                                    *)
(***************************************************************************)
C5_EdgesDeduplicated ==
    drawn["sankey"] =>
        /\ \A j, k \in DOMAIN Links :
             <<Links[j].source, Links[j].target>> = <<Links[k].source, Links[k].target>>
                => j = k
        /\ \A k \in DOMAIN Links :
             LET pair == <<Links[k].source, Links[k].target>>
             IN  /\ Links[k].value >= 1
                 /\ Links[k].value =
                      Cardinality({i \in DOMAIN FlowData : FirstPair(FlowData[i]) = pair})
                      + Cardinality({i \in DOMAIN FlowData : SecondPair(FlowData[i]) = pair})

C5_Witness ==
    /\ drawn["sankey"]
    /\ Len(FlowData) = 2
    /\ file[1][ColCgpa] = "3.6"
    /\ file[2] = [file[1] EXCEPT ![ColCgpa] = "3.7"]
    /\ Cardinality({i \in DOMAIN sankeyData.nodes : sankeyData.nodes[i] = "3.5-4.0"}) = 1
    /\ \E k \in DOMAIN Links : Links[k].source = "3.5-4.0" /\ Links[k].value = 2
    /\ Len(Links) = 2

(***************************************************************************)
(* C6: node names are pairwise distinct, nodes stand in first-seen order   *)
(* of their names, and the node set is exactly the set of edge endpoints.  *)
(***************************************************************************)
\* the names the rows derive, in the order the loop meets them
RECURSIVE DerivedNames(_, _)
DerivedNames(data, condition) ==
    IF data = <<>> THEN <<>>
    ELSE <<cgpaNodeName(Head(data)), conditionNodeName(Head(data), condition),
           treatmentNodeName(Head(data))>> \o DerivedNames(Tail(data), condition)

FirstSeen(names, n) == CHOOSE i \in DOMAIN names : names[i] = n /\ \A j \in 1..(i - 1) : names[j] # n

C6_NodesAreTheEndpoints ==
    drawn["sankey"] =>
        LET nodes == sankeyData.nodes
            names == DerivedNames(FlowData, selectedCondition)
        IN  /\ \A i, j \in DOMAIN nodes : nodes[i] = nodes[j] => i = j
            /\ Range(nodes) = {Links[k].source : k \in DOMAIN Links}
                                \cup {Links[k].target : k \in DOMAIN Links}
            /\ Range(nodes) = Range(names)
            /\ \A i, j \in DOMAIN nodes :
                 i < j => FirstSeen(names, nodes[i]) < FirstSeen(names, nodes[j])

C6_Witness ==
    /\ drawn["sankey"]
    /\ Len(FlowData) = 2
    /\ Len(sankeyData.nodes) = 4
    /\ cgpaNodeName(FlowData[1]) # cgpaNodeName(FlowData[2])
    /\ lastEvent[1] = "setCondition"

(***************************************************************************)
(* C7: whatever the order of the input records, the first-rank column has  *)
(* its CGPA-bin nodes in ascending bin index order.                        *)
(***************************************************************************)
BinIndex(n) == IndexOf(cgpaBinLabels, n)

C7_BinsAscending ==
    drawn["sankey"] =>
        /\ Len(columns) = 3
        /\ Range(columns[1]) = {n \in Range(sankeyData.nodes) : nodeDepth(sankeyData, n) = 0}
        /\ \A i, j \in DOMAIN columns[1] :
             (i < j /\ BinIndex(columns[1][i]) >= 0 /\ BinIndex(columns[1][j]) >= 0)
                => BinIndex(columns[1][i]) < BinIndex(columns[1][j])

\* the bins were registered in descending order
C7_Witness ==
    /\ drawn["sankey"]
    /\ \E i, j \in DOMAIN sankeyData.nodes :
         /\ i < j
         /\ BinIndex(sankeyData.nodes[j]) >= 0
         /\ BinIndex(sankeyData.nodes[i]) > BinIndex(sankeyData.nodes[j])
    /\ Len(columns[1]) = 2

(***************************************************************************)
(* C8: for every active condition and registration order, the condition    *)
(* column holds "<condition> No" before "<condition> Yes" and the          *)
(* treatment column "Treatment No" before "Treatment Yes", under the       *)
(* condition label in force after each condition change.                   *)
(***************************************************************************)
Before(col, a, b) ==
    \A i, j \in DOMAIN col : (col[i] = a /\ col[j] = b) => i < j

C8_NoBeforeYes ==
    drawn["sankey"] =>
        /\ Len(columns) = 3
        /\ Range(columns[2]) \subseteq {selectedCondition \o " No", selectedCondition \o " Yes"}
        /\ Before(columns[2], selectedCondition \o " No", selectedCondition \o " Yes")
        /\ Range(columns[3]) \subseteq {"Treatment No", "Treatment Yes"}
        /\ Before(columns[3], "Treatment No", "Treatment Yes")

\* after a condition change, with Yes registered before No in both ranks
C8_Witness ==
    /\ drawn["sankey"]
    /\ lastEvent[1] = "setCondition"
    /\ selectedCondition # "Depression"
    /\ Len(columns[2]) = 2
    /\ Len(columns[3]) = 2
    /\ conditionNodeName(FlowData[1], selectedCondition) = selectedCondition \o " Yes"
    /\ treatmentNodeName(FlowData[1]) = "Treatment Yes"

(***************************************************************************)
(* C9: the selection starts as (null, Depression); a region click sets the *)
(* region to exactly the clicked code; Reset sets it to null; and whenever *)
(* no region is selected the grid shown is the one of the unfiltered rows. *)
(***************************************************************************)
\* the rows of data whose cells are those of grid cell c
RowsOfCell(data, c) ==
    {i \in DOMAIN data : data[i][ColCgpa] = c.cgpa /\ data[i][ColYear] = c.year}

C9_SelectReset ==
    /\ lastEvent[1] = "init" => (selectedRegion = Null /\ selectedCondition = "Depression")
    /\ lastEvent[1] = "select" => selectedRegion = lastEvent[2]
    /\ lastEvent[1] = "reset" => selectedRegion = Null
    /\ (drawn["heat"] /\ selectedRegion = Null) =>
          \A k \in DOMAIN frequencyData :
             frequencyData[k].count =
                Cardinality(RowsOfCell(cleanData["heat"], frequencyData[k]))
    /\ (drawn["heat"] /\ selectedRegion # Null) =>
          \A k \in DOMAIN frequencyData :
             frequencyData[k].count =
                Cardinality({i \in RowsOfCell(cleanData["heat"], frequencyData[k]) :
                                RegionKey(cleanData["heat"][i]) = selectedRegion})

\* after Reset, over a collection whose grid total differs by region
C9_Witness ==
    /\ lastEvent[1] = "reset"
    /\ drawn["heat"]
    /\ GridTotal = 2
    /\ RegionKey(cleanData["heat"][1]) = "111"
    /\ RegionKey(cleanData["heat"][2]) = "101"

(***************************************************************************)
(* C10: a condition change leaves the selected region as it was, and a     *)
(* region click or Reset leaves the selected condition as it was.          *)
(***************************************************************************)
C10_SettersAreFramed ==
    [][ /\ (lastEvent' # lastEvent /\ lastEvent'[1] = "setCondition")
            => (selectedRegion' = selectedRegion /\ selectedCondition' = lastEvent'[2])
        /\ (lastEvent' # lastEvent /\ lastEvent'[1] \in {"select", "reset"})
            => selectedCondition' = selectedCondition
        /\ (selectedRegion' # selectedRegion) => (selectedCondition' = selectedCondition)
      ]_vars

\* a condition change made while a region is selected
C10_Witness ==
    /\ lastEvent[1] = "setCondition"
    /\ selectedRegion \in RegionCodes
    /\ selectedCondition # "Depression"

(***************************************************************************)
(* C11: the selection handlers at Layout's boundary                        *)
(***************************************************************************)
\* values a caller can hand to onRegionClick: the seven codes, the all-zero
\* code, a string that is no code
RegionInputs == RegionCodes \cup {"000", "1x1"}

\* values a caller can hand to the select's onChange: the three options and a
\* string that is none of them
ConditionInputs == Conditions \cup {"Stress"}

\* the loaded page, its two handlers called with any of these values
InitBoundary == InitLoaded(SeqsUpTo(SampleRows, 1))

NextBoundary ==
    \/ \E code \in RegionInputs : onRegionClick(code)
    \/ \E c \in ConditionInputs : SetCondition(c)

SpecBoundary == InitBoundary /\ [][NextBoundary]_vars

YesSpellings == {"Yes", "yes", "YES"}

\* what a condition cell of the file can hold: an answer in some spelling,
\* nothing, a number, a boolean
ClassifyCells == YesSpellings \cup {"No", "", "1", "true"}

\* the row with the cell of column col set to cell
WithCell(d, col, cell) == [d EXCEPT ![col] = cell]

\* the row of a file that has no column col
WithoutColumn(d, col) == [h \in DOMAIN d \ {col} |-> d[h]]

\* a listed grid cell, so that the heat map counts the row when it passes
\* the region filter
ClassifyBase ==
    { Row(a, a, a, "3.00 - 3.49", "year 2", "No") : a \in {"Yes", "No", "YES"} }

\* rows in which one condition column runs over every kind of cell, or is
\* missing
ClassifyRows ==
    { WithCell(d, col, cell) :
        d \in ClassifyBase, col \in {ColDepression, ColAnxiety, ColPanic},
        cell \in ClassifyCells }
    \cup { WithoutColumn(d, col) :
             d \in ClassifyBase, col \in {ColDepression, ColAnxiety, ColPanic} }

\* files of one record, loaded by the three views, then filtered by region
InitClassify == InitPage({<<d>> : d \in ClassifyRows})

NextClassify ==
    \/ \E v \in Views : LoadResolve(v)
    \/ \E code \in RegionCodes : RegionClick(code)
    \/ Reset

SpecClassify == InitClassify /\ [][NextClassify]_vars

\* every three-character string over {0, 1}
AllCodes == RegionCodes \cup {"000"}

\* the i-th character of the code of a row answers column CondColumn(i)
CondColumn(i) == <<ColDepression, ColAnxiety, ColPanic>>[i]

\* the code has a 1 exactly where the file's cell is a spelling of yes
CodeMatchesAnswers(code, raw) ==
    /\ code \in AllCodes
    /\ \A i \in 1..3 :
         (CharAt(code, i) = "1") <=> (Field(raw, CondColumn(i)) \in YesSpellings)

\* the record is counted in the region of its code, and in no other
CountedAt(code) ==
    /\ \A c \in RegionCodes : frequencies.count[c] = (IF c = code THEN 1 ELSE 0)
    /\ frequencies.nan = (IF code \in RegionCodes THEN {} ELSE {code})

\* what the claim says of the record a view has loaded
ClassifiedInViews ==
    /\ \A v \in {"venn", "heat"} : \A i \in DOMAIN cleanData[v] :
         /\ CodeMatchesAnswers(RegionKey(cleanData[v][i]), file[i])
         /\ regionKey(cleanData[v][i]) = RegionKey(cleanData[v][i])
    /\ drawn["venn"] => CountedAt(RegionKey(cleanData["venn"][1]))
    /\ drawn["heat"] /\ selectedRegion # Null =>
         GridTotal = (IF regionKey(cleanData["heat"][1]) = selectedRegion THEN 1 ELSE 0)

\* C12 (as stated): every record, whatever its condition cells hold, gets
\* exactly one code over {0,1} with a 1 exactly for a yes answer, no
\* exception is raised, and the Venn diagram and the heat map's filter
\* compute the same code.
C12_ClassifyTotal == ~error /\ ClassifiedInViews

\* the condition cells of the file are answers, blank or missing
TextAnswers ==
    \A i \in DOMAIN file : \A k \in 1..3 :
        Field(file[i], CondColumn(k)) \in YesSpellings \cup {"No", "", Undefined}

\* C12 (what holds): a record whose condition cells are text, blank or
\* missing gets exactly one code over {0,1} with a 1 exactly for a yes
\* answer in any casing, no exception is raised, and the Venn diagram and
\* the heat map's filter compute the same code.
C12_TextAnswersClassified == TextAnswers => (~error /\ ClassifiedInViews)

\* a record with a missing or blank condition cell is counted by the Venn
\* diagram and passes the heat map's filter for its code
C12_Witness ==
    /\ TextAnswers
    /\ \E k \in 1..3 : Field(file[1], CondColumn(k)) \in {"", Undefined}
    /\ \E k \in 1..3 : Field(file[1], CondColumn(k)) = "YES"
    /\ drawn["venn"] /\ drawn["heat"]
    /\ selectedRegion = RegionKey(cleanData["heat"][1])
    /\ GridTotal = 1

(***************************************************************************)
(* C13: the CGPA bin of every value of a grid                              *)
(***************************************************************************)
DigitChar(d) == CharAt(Digits, d + 1)

RECURSIVE NatText(_)
NatText(n) == IF n < 10 THEN DigitChar(n) ELSE NatText(n \div 10) \o DigitChar(n % 10)

\* the CSV text of n thousandths, with three decimals: 1995 -> "1.995"
DecimalText(n) ==
    LET m == IF n < 0 THEN 0 - n ELSE n
    IN  (IF n < 0 THEN "-" ELSE "") \o NatText(m \div 1000) \o "."
          \o DigitChar((m \div 100) % 10) \o DigitChar((m \div 10) % 10) \o DigitChar(m % 10)

\* CGPA values in thousandths: every 0.005 from -0.010 to past 4.000
CgpaGrid == {5 * k : k \in -2..MaxGrid}

BinRows == { Row("Yes", "No", "Yes", DecimalText(n), "year 1", "No") : n \in CgpaGrid }

\* files of one record, drawn by the Sankey under every condition
InitBin == InitLoaded({<<d>> : d \in BinRows})

NextBin == \E c \in Conditions : SetCondition(c)

SpecBin == InitBin /\ [][NextBin]_vars

\* the bin of n thousandths by the half-open ranges of the claim
HalfOpenBin(n) ==
    IF 0 <= n /\ n < 2000 THEN "0-1.99"
    ELSE IF 2000 <= n /\ n < 2500 THEN "2.0-2.49"
    ELSE IF 2500 <= n /\ n < 3000 THEN "2.5-2.99"
    ELSE IF 3000 <= n /\ n < 3500 THEN "3.0-3.49"
    ELSE IF 3500 <= n /\ n <= 4000 THEN "3.5-4.0"
    ELSE "Unknown"

\* the CGPA value of the file's record, read off the file's text
\* independently of parseFloat: the grid value that was written
FileCgpa == CHOOSE n \in CgpaGrid : DecimalText(n) = Field(file[1], ColCgpa)

\* the first-stage node the Sankey shows for the record
ShownBin == sankeyData.nodes[1]

\* C13 (as stated): every CGPA value of the grid maps to the bin of the
\* half-open ranges [0,2.0), [2.0,2.5), [2.5,3.0), [3.0,3.5), [3.5,4.0], and
\* only values outside [0,4] map to Unknown.
C13_BinsExhaustive == drawn["sankey"] => ShownBin = HalfOpenBin(FileCgpa)

\* the value lies strictly between the end of one bin and the start of the next
InGap(n) ==
    \E lo \in {1990, 2490, 2990, 3490} : lo < n /\ n < lo + 10

\* C13 (what holds): a value strictly between 1.99 and 2.0, 2.49 and 2.5,
\* 2.99 and 3.0 or 3.49 and 3.5 maps to Unknown; every other value of the
\* grid maps to the bin of the half-open ranges.
C13_BinsWithGaps ==
    drawn["sankey"] =>
        ShownBin = (IF InGap(FileCgpa) THEN "Unknown" ELSE HalfOpenBin(FileCgpa))

\* the record with CGPA 1.995 is drawn in the Unknown node
C13_Witness ==
    /\ Field(file[1], ColCgpa) = "1.995"
    /\ drawn["sankey"]
    /\ selectedCondition = "Anxiety"
    /\ ShownBin = "Unknown"

(***************************************************************************)
(* C14: what a click can select                                            *)
(***************************************************************************)
\* the page from mount on, with every kind of click on the Venn diagram
InitSelect == InitPage(SeqsUpTo(SampleRows, 1))

NextSelect ==
    \/ \E v \in Views : LoadResolve(v)
    \/ \E code \in RegionCodes : RegionClick(code)
    \/ CircleClick
    \/ BackgroundClick
    \/ Reset
    \/ \E c \in Conditions : SetCondition(c)

SpecSelect == InitSelect /\ [][NextSelect]_vars

\* C14: selectedRegion is always null or one of the seven non-zero codes; it
\* changes only by a click on a region's rect or count label of the drawn
\* Venn diagram, or by Reset; a click on a circle or on the background leaves
\* the selection as it was.
C14_OnlyRegionTargetsSelect ==
    /\ selectedRegion \in RegionCodes \cup {Null}
    /\ [][ /\ selectedRegion' \in RegionCodes \cup {Null}
           /\ (selectedRegion' # selectedRegion
                 => \/ lastEvent' = <<"select", selectedRegion'>> /\ drawn["venn"]
                    \/ lastEvent' = <<"reset", Null>>)
           /\ (lastEvent' # lastEvent /\ lastEvent'[1] \in {"circle", "background"}
                 => /\ selectedRegion' = selectedRegion
                    /\ selectedCondition' = selectedCondition) ]_vars

\* a circle was clicked while a region was selected, and the region still is
C14_Witness ==
    /\ lastEvent = <<"circle", Null>>
    /\ selectedRegion = "101"
    /\ drawn["venn"] /\ drawn["heat"]

(***************************************************************************)
(* C15: the three views from mount on, under loads, resizes and selection  *)
(***************************************************************************)
\* an empty file and files of one record
ViewFiles == SeqsUpTo({Row("Yes", "No", "Yes", "3.00 - 3.49", "year 2", "No")}, 1)

InitViews == InitMounted(ViewFiles, Viewports)

NextViews ==
    \/ \E v \in Views : LoadResolve(v)
    \/ \E v \in Views : LoadReject(v)
    \/ \E code \in {"101", "010"} : RegionClick(code)
    \/ Reset
    \/ \E c \in Conditions : SetCondition(c)
    \/ \E w \in Viewports : Resize(w)
    \/ DebounceElapsed

SpecViews == InitViews /\ [][NextViews]_vars

\* the view's load was rejected
LoadFailed(v) == ~loadPending[v] /\ Len(cleanData[v]) = 0 /\ Len(file) # 0

\* C15: a view draws no chart while its load is pending; after a failed load
\* no exception is raised and the view stays empty whatever resize or
\* selection event follows; once a load with records completes, the chart
\* is drawn.
C15_DrawnOnlyWhenLoaded ==
    /\ ~error
    /\ \A v \in Views :
         /\ loadPending[v] => ~drawn[v]
         /\ LoadFailed(v) => ~drawn[v]
         /\ Len(cleanData[v]) # 0 => drawn[v]

\* after a failed load of the heat map, a region was selected and the window
\* resized: the heat map is still empty, the Venn diagram is drawn
C15_Witness ==
    /\ LoadFailed("heat") /\ ~drawn["heat"]
    /\ drawn["venn"]
    /\ selectedRegion = "101"
    /\ viewport # WideViewport
    /\ burst.updates["heat"] > 0
    /\ loadPending["sankey"]

C17_ResizeDebounced == \A v \in Views : burst.updates[v] <= 1

\* C17 (what holds): the Sankey updates its size at most once per run of
\* resize events, when the run is over, to the size of the last event; the
\* Venn diagram and the heat map update their size on every resize event.
C17_OnlySankeyDebounced ==
    /\ burst.updates["sankey"] <= 1
    /\ burst.open => resizeTimer.pending
    /\ ~resizeTimer.pending =>
         size["sankey"] = measuredSize("sankey", viewport, size["sankey"])
    /\ burst.updates["venn"] = burst.events
    /\ burst.updates["heat"] = burst.events

\* a run of two resize events is over: one size update in the Sankey, two in
\* each of the other views
C17_Witness ==
    /\ ~burst.open
    /\ burst.events = 2
    /\ burst.updates["sankey"] = 1
    /\ burst.updates["venn"] = 2
    /\ drawn["sankey"] /\ drawn["venn"]
    /\ size["sankey"].width = columnWidth(viewport)

(***************************************************************************)
(* C18: what the containers hold after redraws                             *)
(***************************************************************************)
\* C18 (as stated): after any sequence of loads, resizes and selection
\* changes every view's container holds at most one tooltip element: what a
\* redraw added before is removed before the next one draws.
C18_NoAccumulation == \A v \in Views : tooltips[v] <= 1

\* C18 (what holds): the Venn diagram's container holds its one tooltip,
\* the Sankey's holds one tooltip once it has drawn and none before; the
\* heat map's holds at least one as soon as it has drawn, and none before.
C18_VennAndSankeyReplace ==
    /\ tooltips["venn"] = 1
    /\ tooltips["sankey"] = (IF drawn["sankey"] THEN 1 ELSE 0)
    /\ drawn["heat"] <=> tooltips["heat"] >= 1

\* the heat map has drawn on load and again after a region click: its
\* container holds two tooltip divs, the Sankey's one after two draws
C18_Witness ==
    /\ tooltips["heat"] >= 2
    /\ lastEvent = <<"select", "101">>
    /\ burst.events = 0
    /\ tooltips["sankey"] = 1
    /\ selectedCondition # "Depression"

(***************************************************************************)
(* C19: the condition status in the Sankey against the region code         *)
(***************************************************************************)
\* one-record files whose condition cells are answers in some spelling,
\* blank or missing
StatusRows ==
    { d \in ClassifyRows :
        \A k \in 1..3 : Field(d, CondColumn(k)) \in YesSpellings \cup {"No", "", Undefined} }

InitStatus == InitLoaded({<<d>> : d \in StatusRows})

NextStatus == \E c \in Conditions : SetCondition(c)

SpecStatus == InitStatus /\ [][NextStatus]_vars

\* the position of a condition in the region code
CodePosition(c) ==
    CASE c = "Depression" -> 1
      [] c = "Anxiety" -> 2
      [] OTHER -> 3

\* the Sankey shows the record under "<condition> Yes"
ShownYes == (selectedCondition \o " Yes") \in Range(sankeyData.nodes)

\* the Sankey shows the record under "<condition> No"
ShownNo == (selectedCondition \o " No") \in Range(sankeyData.nodes)

\* the bit of the selected condition in the code the Venn diagram computes
CodeBit == CharAt(RegionKey(cleanData["venn"][1]), CodePosition(selectedCondition))

\* the file's answer to the selected condition
FileAnswer == Field(file[1], CondColumn(CodePosition(selectedCondition)))

\* C19 (as stated): for every record, condition and spelling of the answer
\* the Sankey's condition status is Yes exactly when the record's region
\* code has a 1 for that condition.
C19_StatusAgreesWithCode ==
    /\ ShownYes <=> CodeBit = "1"
    /\ ShownNo <=> CodeBit = "0"

\* C19 (what holds): the Sankey's condition status is Yes exactly when the
\* cell is spelled "Yes"; it agrees with the region code for Yes, No, a blank
\* and a missing cell, and is No where the code has a 1 for yes and YES.
C19_StatusIsExactYes ==
    /\ ShownYes <=> FileAnswer = "Yes"
    /\ ShownNo <=> FileAnswer # "Yes"
    /\ CodeBit = "1" <=> FileAnswer \in YesSpellings
    /\ FileAnswer \in {"Yes", "No", "", Undefined} => (ShownYes <=> CodeBit = "1")
    /\ FileAnswer \in {"yes", "YES"} => ShownNo /\ CodeBit = "1"

\* a record answering yes in lower case is counted in a Depression region
\* and drawn under Depression No
C19_Witness ==
    /\ Field(file[1], ColDepression) = "yes"
    /\ lastEvent = <<"setCondition", "Depression">>
    /\ drawn["sankey"] /\ ShownNo
    /\ frequencies.count["111"] = 1

(***************************************************************************)
(* C20: the comparator as an ordering of the node names                    *)
(***************************************************************************)
\* one CGPA text per bin and one that is no number
OrderCgpas == {"1.5", "2.2", "2.7", "3.2", "3.7", "N/A"}

\* files of three records with three different first-stage nodes, registered
\* in every order; both statuses of every condition and of the treatment
OrderFiles ==
    { << Row("Yes", "Yes", "Yes", c[1], "year 1", "Yes"),
         Row("No", "No", "No", c[2], "year 1", "No"),
         Row("Yes", "No", "Yes", c[3], "year 1", "Yes") >> :
        c \in {t \in [1..3 -> OrderCgpas] : t[1] # t[2] /\ t[1] # t[3] /\ t[2] # t[3]} }

InitOrder == InitLoaded(OrderFiles)

NextOrder == \E c \in Conditions : SetCondition(c)

SpecOrder == InitOrder /\ [][NextOrder]_vars

\* the node names the builder can produce under a condition
NodeNames(condition) ==
    Range(cgpaBinLabels) \cup {"Unknown"}
      \cup {condition \o " No", condition \o " Yes", "Treatment No", "Treatment Yes"}

Sign(x) == IF x < 0 THEN -1 ELSE IF x > 0 THEN 1 ELSE 0

\* the comparator's table over the names of the selected condition
SortTable ==
    [p \in NodeNames(selectedCondition) \X NodeNames(selectedCondition) |->
        nodeSort(p[1], p[2], selectedCondition)]

\* C20: under every condition the comparator is a consistent ordering of
\* the ten node names: cmp(a,a) = 0, sign(cmp(a,b)) = -sign(cmp(b,a)), it is
\* transitive, and it ties no two different names; so every column the
\* layout shows is in the one order the comparator allows, whatever the order
\* in which the nodes were registered.
C20_ComparatorConsistent ==
    LET N == NodeNames(selectedCondition)
        cmp == SortTable
    IN  /\ \A a \in N : cmp[<<a, a>>] = 0
        /\ \A a, b \in N : Sign(cmp[<<a, b>>]) = 0 - Sign(cmp[<<b, a>>])
        /\ \A a, b \in N : cmp[<<a, b>>] = 0 => a = b
        /\ \A a, b, c \in N :
             cmp[<<a, b>>] < 0 /\ cmp[<<b, c>>] < 0 => cmp[<<a, c>>] < 0
        /\ Range(sankeyData.nodes) \subseteq N
        /\ \A k \in DOMAIN columns : \A i, j \in DOMAIN columns[k] :
             i < j => cmp[<<columns[k][i], columns[k][j]>>] < 0

\* Unknown was registered first and a middle bin last: the column shows the
\* two bins in bin order and Unknown after them
C20_Witness ==
    /\ selectedCondition = "Panic attack"
    /\ sankeyData.nodes[1] = "Unknown"
    /\ columns[1] = <<"0-1.99", "3.5-4.0", "Unknown">>
    /\ columns[2] = <<"Panic attack No", "Panic attack Yes">>
    /\ Field(file[3], ColCgpa) = "1.5"

====
